---- MODULE Spec2Model ----
(***************************************************************************)
(* A model of nyxsitemap (sitemap.go): SitemapOptions, AddURL and Write,   *)
(* with the files Write leaves in s.Dir and the order in which it writes   *)
(* and validates them.                                                     *)
(*                                                                         *)
(* Strings that the code parses are modelled by their parsed shape:        *)
(*   a URL string is a record [kind, host, path, rooted, dir] where kind   *)
(*   is "abs" (scheme and host), "rel" (a path reference) or "bad"         *)
(*   (url.Parse fails), path is the sequence of path segments, rooted says *)
(*   the path starts with "/" and dir says it ends with "/";               *)
(*   a lastmod string is a record [shape, y, m, d] where shape is "empty", *)
(*   "ymd" (text of the form YYYY-MM-DD) or "junk" (any other text).       *)
(***************************************************************************)
EXTENDS Integers, Sequences, FiniteSets, TLC

VARIABLES
    MaxURLs,        \* s.MaxURLs
    BaseURL,        \* s.BaseURL
    Stylesheet,     \* s.Stylesheet
    URLs,           \* s.URLs
    dirExists,      \* whether s.Dir exists
    disk,           \* the files of s.Dir: file name -> document
    now,            \* the clock: days since EpochDate (UTC)
    pc,             \* where the caller is: "idle", inside Write, or "done"
    baseSitemapURL, \* Write's argument
    fileCount,      \* writeSitemapIndex: fileCount
    i,              \* writeSitemapIndex: the loop counter
    index,          \* writeSitemapIndex: index.Sitemaps
    refs,           \* validateSitemapIndexAndFiles: index.Sitemaps read back
    j,              \* validateSitemapIndexAndFiles: position in refs
    result,         \* what the last Write returned ("none" while it runs)
    added,          \* history: every AddURL argument, with the day it came
    written,        \* history: the files this Write wrote, in order, with their content
    checked,        \* history: the files this Write validated, in order, with the outcome
    failed,         \* history: the file whose write failed in this Write, or ""
    calls,          \* history: how many Write calls have started
    sinceWrite,     \* history: Len(URLs) when the previous Write returned
    planN,          \* the planner's entry count (len(s.URLs)) in SpecPlan
    windows         \* the planner's [start, end) windows in SpecPlan

vars == <<MaxURLs, BaseURL, Stylesheet, URLs, dirExists, disk, now, pc,
          baseSitemapURL, fileCount, i, index, refs, j, result, added,
          written, checked, failed, calls, sinceWrite, planN, windows>>

(***************************************************************************)
(* Bounds of the model.                                                    *)
(***************************************************************************)
MaxEntries == 3      \* most entries accumulated
MaxPerFile == 2      \* largest per-file limit tried in Spec
MaxWrites == 2       \* most Write calls in one behaviour
MaxDay == 3          \* last day the clock reaches
MaxDateEntries == 3  \* most entries accumulated in SpecDate
NonPositive == 2     \* SpecAnyMax tries MaxURLs down to -NonPositive
PlanSpread == 12     \* SpecPlan tries entry counts ScenarioEntries +- PlanSpread

(***************************************************************************)
(* Program constants.                                                      *)
(***************************************************************************)
maxURLsPerSitemap == 33333
ProtocolMaxURLs == 50000
ScenarioEntries == 60002

(***************************************************************************)
(* Calendar dates: time.Parse("2006-01-02", s) and Format("2006-01-02").   *)
(***************************************************************************)
EpochDate == <<2023, 12, 30>>

IsLeap(y) == (y % 4 = 0 /\ y % 100 # 0) \/ y % 400 = 0

DaysIn(y, m) ==
    IF m = 2 THEN (IF IsLeap(y) THEN 29 ELSE 28)
    ELSE IF m \in {4, 6, 9, 11} THEN 30 ELSE 31

NextDay(t) ==
    IF t[3] < DaysIn(t[1], t[2]) THEN <<t[1], t[2], t[3] + 1>>
    ELSE IF t[2] < 12 THEN <<t[1], t[2] + 1, 1>>
    ELSE <<t[1] + 1, 1, 1>>

RECURSIVE DateOfDay(_)
DateOfDay(n) == IF n = 0 THEN EpochDate ELSE NextDay(DateOfDay(n - 1))

\* time.Now().UTC().Format("2006-01-02")
FormatDate(t) == [shape |-> "ymd", y |-> t[1], m |-> t[2], d |-> t[3]]

Today(day) == FormatDate(DateOfDay(day))

\* time.Parse("2006-01-02", s): err == nil
ParseOk(s) ==
    /\ s.shape = "ymd"
    /\ s.y \in 0..9999
    /\ s.m \in 1..12
    /\ s.d \in 1..DaysIn(s.y, s.m)

\* time.Parse("2006-01-02", s): the time (midnight UTC of that date)
ParseDate(s) == <<s.y, s.m, s.d>>

DateLess(a, b) ==
    \/ a[1] < b[1]
    \/ a[1] = b[1] /\ a[2] < b[2]
    \/ a[1] = b[1] /\ a[2] = b[2] /\ a[3] < b[3]

\* timeLastMod.After(time.Now().UTC()): midnight of date t is after an instant
\* of day `day` exactly when t is a later date.
AfterNow(t, day) == DateLess(DateOfDay(day), t)

\* DefaultLastMod without the After test: a later date is kept.
DefaultLastModKeepsFuture(lastMod, day) ==
    IF lastMod.shape = "empty" THEN Today(day)
    ELSE IF ~ParseOk(lastMod) THEN Today(day)
    ELSE lastMod

\* AddURL, lines 140-147: the LastMod that is stored.
DefaultLastMod(lastMod, day) ==
    IF lastMod.shape = "empty" THEN Today(day)
    ELSE IF ~ParseOk(lastMod) \/ AfterNow(ParseDate(lastMod), day) THEN Today(day)
    ELSE lastMod

EmptyDate == [shape |-> "empty", y |-> 0, m |-> 0, d |-> 0]
JunkDate == [shape |-> "junk", y |-> 0, m |-> 0, d |-> 0]
Ymd(y, m, d) == [shape |-> "ymd", y |-> y, m |-> m, d |-> d]

(***************************************************************************)
(* URL strings: url.Parse, ResolveReference, String, path.Base.            *)
(***************************************************************************)
AbsURL(host, path, dir) ==
    [kind |-> "abs", host |-> host, path |-> path, rooted |-> TRUE, dir |-> dir]
RelURL(path, rooted) ==
    [kind |-> "rel", host |-> "", path |-> path, rooted |-> rooted, dir |-> FALSE]
BadURL == [kind |-> "bad", host |-> "", path |-> <<>>, rooted |-> FALSE, dir |-> FALSE]

\* url.Parse(s): err == nil
URLParses(s) == s.kind # "bad"

\* strings.TrimRight(s, "/")
TrimRightSlash(s) ==
    IF s.kind = "bad" THEN s
    ELSE [s EXCEPT !.dir = FALSE,
                   !.rooted = IF s.kind = "rel" /\ s.path = <<>> THEN FALSE ELSE s.rooted]

\* s + "/"
AddSlash(s) ==
    IF s.kind = "bad" THEN s
    ELSE [s EXCEPT !.dir = TRUE,
                   !.rooted = IF s.kind = "rel" /\ s.path = <<>> THEN TRUE ELSE s.rooted]

\* The directory part of a base path: everything up to its last "/".
DirOf(s) == IF s.dir \/ s.path = <<>> THEN s.path ELSE SubSeq(s.path, 1, Len(s.path) - 1)

\* base.ResolveReference(ref).String()
ResolveReference(base, ref) ==
    IF ref.kind = "abs" THEN ref
    ELSE IF ref.path = <<>> /\ ~ref.rooted THEN base
    ELSE [kind |-> base.kind, host |-> base.host,
          path |-> IF ref.rooted THEN ref.path ELSE DirOf(base) \o ref.path,
          rooted |-> ref.rooted \/ base.rooted \/ base.kind = "abs",
          dir |-> ref.dir]

\* path.Base(u.Path)
PathBase(u) == IF u.path = <<>> THEN (IF u.rooted THEN "/" ELSE ".") ELSE u.path[Len(u.path)]

\* resolveURL, lines 200-210: [ok, url]
resolveURL(base, loc) ==
    IF ~URLParses(base) THEN [ok |-> FALSE, url |-> BadURL]
    ELSE IF ~URLParses(loc) THEN [ok |-> FALSE, url |-> BadURL]
    ELSE [ok |-> TRUE, url |-> ResolveReference(base, loc)]

\* fmt.Sprintf("%d", k), k >= 0
RECURSIVE Itoa(_)
Itoa(k) ==
    LET digit == <<"0", "1", "2", "3", "4", "5", "6", "7", "8", "9">>[(k % 10) + 1]
    IN IF k < 10 THEN digit ELSE Itoa(k \div 10) \o digit

\* fmt.Sprintf("sitemap_%d.xml", k), line 253
SitemapName(k) == "sitemap_" \o Itoa(k) \o ".xml"

\* resolveSitemapURL, lines 212-222: [ok, url]
resolveSitemapURL(base, sitemapName) ==
    LET b == AddSlash(TrimRightSlash(base))
        r == RelURL(<<sitemapName>>, FALSE)
    IN IF ~URLParses(b) THEN [ok |-> FALSE, url |-> BadURL]
       ELSE [ok |-> TRUE, url |-> ResolveReference(b, r)]

(***************************************************************************)
(* XML documents: xml.MarshalIndent of URLSet and SitemapIndex, and the    *)
(* two embedded XSD schemas.                                               *)
(***************************************************************************)
ChangeFreqEnum == {"always", "hourly", "daily", "weekly", "monthly", "yearly", "never"}

\* priority values of the model that are decimals in [0.0, 1.0]
PriorityInRange(p) == p \in {"0.0", "0.5", "0.8", "1.0"}

\* The child elements of <url>, in struct order; `omitempty` drops the empty ones.
URLChildren(u) ==
    <<"loc">>
    \o (IF u.LastMod.shape = "empty" THEN <<>> ELSE <<"lastmod">>)
    \o (IF u.ChangeFreq = "" THEN <<>> ELSE <<"changefreq">>)
    \o (IF u.Priority = "" THEN <<>> ELSE <<"priority">>)

\* One <url> element (SitemapURL, lines 88-94)
MarshalURL(u) ==
    [children |-> URLChildren(u), loc |-> u.Loc, lastmod |-> u.LastMod,
     changefreq |-> u.ChangeFreq, priority |-> u.Priority]

\* One <sitemap> element (Sitemap, lines 104-108)
MarshalSitemap(sm) ==
    [children |-> <<"loc">> \o (IF sm.LastMod.shape = "empty" THEN <<>> ELSE <<"lastmod">>),
     loc |-> sm.Loc, lastmod |-> sm.LastMod,
     changefreq |-> "", priority |-> ""]

\* writeSitemapFile, lines 225-240: the bytes of a urlset document
URLSetDoc(stylesheet, urls) ==
    [root |-> "urlset", stylesheet |-> stylesheet,
     items |-> [k \in 1..Len(urls) |-> MarshalURL(urls[k])]]

\* writeSitemapIndex, lines 274-284: the bytes of a sitemapindex document
SitemapIndexDoc(stylesheet, sitemaps) ==
    [root |-> "sitemapindex", stylesheet |-> stylesheet,
     items |-> [k \in 1..Len(sitemaps) |-> MarshalSitemap(sitemaps[k])]]

\* xml.Unmarshal(indexData, &index), line 338: index.Sitemaps
UnmarshalSitemaps(doc) ==
    [k \in 1..Len(doc.items) |-> [Loc |-> doc.items[k].loc, LastMod |-> doc.items[k].lastmod]]

\* xs:date accepts the text
XsDate(s) == ParseOk(s)

\* sitemapXSD, lines 21-62
ValidURLSet(doc) ==
    /\ doc.root = "urlset"
    /\ Len(doc.items) >= 1
    /\ \A k \in 1..Len(doc.items) :
          LET e == doc.items[k]
              has(tag) == \E c \in 1..Len(e.children) : e.children[c] = tag
          IN /\ e.children[1] = "loc"
             /\ has("lastmod") => XsDate(e.lastmod)
             /\ has("changefreq") => e.changefreq \in ChangeFreqEnum
             /\ has("priority") => PriorityInRange(e.priority)

\* sitemapIndexXSD, lines 64-84
ValidSitemapIndex(doc) ==
    /\ doc.root = "sitemapindex"
    /\ Len(doc.items) >= 1
    /\ \A k \in 1..Len(doc.items) :
          LET e == doc.items[k]
              has(tag) == \E c \in 1..Len(e.children) : e.children[c] = tag
          IN /\ e.children[1] = "loc"
             /\ has("lastmod") => XsDate(e.lastmod)

\* validateXMLFile, lines 292-322, readOk: os.ReadFile succeeds
validateXMLFile(files, name, isIndex, readOk) ==
    IF ~readOk \/ name \notin DOMAIN files THEN "ReadError"
    ELSE IF isIndex THEN (IF ValidSitemapIndex(files[name]) THEN "nil" ELSE "SchemaViolation")
    ELSE (IF ValidURLSet(files[name]) THEN "nil" ELSE "SchemaViolation")

(***************************************************************************)
(* The batch plan of writeSitemapIndex, lines 251-259.                     *)
(***************************************************************************)
Abs(a) == IF a < 0 THEN -a ELSE a

\* Go's integer division (truncated toward zero), b # 0
GoDiv(a, b) ==
    IF (a < 0) = (b < 0) THEN Abs(a) \div Abs(b) ELSE -(Abs(a) \div Abs(b))

\* len(s.URLs) / s.MaxURLs rounded down
FileCountFloor(n, max) == GoDiv(n, max)

\* line 251: fileCount
FileCount(n, max) == GoDiv(n + max - 1, max)

\* start counted from one
ShardStartOneBased(k, max) == k * max + 1

\* line 254: start
ShardStart(k, max) == k * max

\* lines 255-258: end
ShardEnd(k, max, n) ==
    IF ShardStart(k, max) + max > n THEN n ELSE ShardStart(k, max) + max

\* line 259: s.URLs[start:end] does not fault
SliceOk(start, end, n) == 0 <= start /\ start <= end /\ end <= n

(***************************************************************************)
(* Inputs.                                                                 *)
(***************************************************************************)
Entry(loc, lastMod, changeFreq, priority) ==
    [Loc |-> loc, LastMod |-> lastMod, ChangeFreq |-> changeFreq, Priority |-> priority]

\* AddURL arguments of Spec: a rooted path, an absolute URL, an entry whose
\* changefreq is outside the schema's enumeration, and a location that does
\* not parse.
URLInputs ==
    { Entry(RelURL(<<"about">>, TRUE), Ymd(2023, 10, 25), "daily", "1.0"),
      Entry(AbsURL("cdn.example.com", <<"b">>, FALSE), EmptyDate, "weekly", ""),
      Entry(RelURL(<<"page">>, TRUE), JunkDate, "sometimes", "0.5"),
      Entry(BadURL, EmptyDate, "weekly", "0.5") }

\* lastmod arguments of SpecDate: empty, not a date, not a calendar date, a
\* past date, and the dates around the clock's range.
DateInputs ==
    { EmptyDate, JunkDate, Ymd(2024, 2, 30), Ymd(2023, 10, 25),
      Ymd(2023, 12, 31), Ymd(2024, 1, 1), Ymd(2024, 1, 3) }

BaseURLInputs == { AbsURL("www.example.com", <<>>, TRUE), BadURL }

SitemapBaseInputs == { AbsURL("www.example.com", <<"maps">>, TRUE), BadURL }

StylesheetInputs == { "" }

(***************************************************************************)
(* NewSitemapOptions, lines 128-136, and the caller's choice of MaxURLs.   *)
(***************************************************************************)
NewSitemapOptions(maxes, bases, counts) ==
    /\ MaxURLs \in maxes
    /\ BaseURL \in { TrimRightSlash(b) : b \in bases }
    /\ Stylesheet = ""
    /\ URLs = <<>>
    /\ dirExists \in BOOLEAN
    /\ disk = <<>>
    /\ now = 0
    /\ pc = "idle"
    /\ baseSitemapURL = BadURL
    /\ fileCount = 0
    /\ i = 0
    /\ index = <<>>
    /\ refs = <<>>
    /\ j = 0
    /\ result = "none"
    /\ added = <<>>
    /\ written = <<>>
    /\ checked = <<>>
    /\ failed = ""
    /\ calls = 0
    /\ sinceWrite = 0
    /\ planN \in counts
    /\ windows = <<>>

Init == NewSitemapOptions(1..MaxPerFile, BaseURLInputs, {0})

InitAnyMax == NewSitemapOptions((-NonPositive)..MaxPerFile, BaseURLInputs, {0})

InitDate == NewSitemapOptions({maxURLsPerSitemap}, {AbsURL("www.example.com", <<>>, TRUE)}, {0})

InitPlan ==
    NewSitemapOptions({maxURLsPerSitemap, ProtocolMaxURLs}, BaseURLInputs,
                      (ScenarioEntries - PlanSpread)..(ScenarioEntries + PlanSpread))

config == <<MaxURLs, BaseURL>>
locals == <<fileCount, i, index, refs, j>>
planVars == <<planN, windows>>

\* line 148 with the slice replaced instead of extended
AppendOverwrites(urls, url) == <<url>>

\* line 148: append(s.URLs, url)
AppendURL(urls, url) == Append(urls, url)

(***************************************************************************)
(* AddURL, lines 139-149. The caller is between Write calls; the history   *)
(* of the Write that returned is dropped.                                  *)
(***************************************************************************)
AddURL(url, bound) ==
    /\ pc \in {"idle", "done"}
    /\ Len(URLs) < bound
    /\ URLs' = AppendURL(URLs, [url EXCEPT !.LastMod = DefaultLastMod(url.LastMod, now)])
    /\ added' = Append(added, [url |-> url, day |-> now])
    /\ pc' = "idle"
    /\ result' = "none"
    /\ written' = <<>>
    /\ checked' = <<>>
    /\ failed' = ""
    /\ sinceWrite' = IF pc = "done" THEN Len(URLs) ELSE sinceWrite
    /\ UNCHANGED <<config, locals, planVars, Stylesheet, dirExists, disk,
                   baseSitemapURL, calls, now>>

AddInput == \E url \in URLInputs : AddURL(url, MaxEntries)

\* AddURL with the lastmod inputs, or with the lastmod of a stored entry
AddDated ==
    \E d \in DateInputs \cup { URLs[k].LastMod : k \in 1..Len(URLs) } :
        AddURL(Entry(RelURL(<<"about">>, TRUE), d, "daily", "1.0"), MaxDateEntries)

\* the clock moves to the next day
Tick ==
    /\ pc \in {"idle", "done"}
    /\ now < MaxDay
    /\ now' = now + 1
    /\ UNCHANGED <<config, locals, planVars, Stylesheet, dirExists, disk,
                   baseSitemapURL, calls, URLs, added, pc, result, written, checked,
                   failed, sinceWrite>>

(***************************************************************************)
(* Write, lines 161-198.                                                   *)
(***************************************************************************)
Return(err) ==
    /\ result' = err
    /\ pc' = "done"

\* an os.WriteFile error that is dropped
WriteFailedIgnored(writeOk) == FALSE

\* `if err != nil` after writeSitemapFile / os.WriteFile, lines 184, 192, 261
WriteFailed(writeOk) == ~writeOk

\* os.WriteFile replaced by one that empties the directory first
WriteFileAlone(files, name, doc) == [f \in {name} |-> doc]

\* os.WriteFile(path.Join(s.Dir, name), bytes, 0644) when it succeeds
WriteFile(files, name, doc) ==
    [f \in DOMAIN files \cup {name} |-> IF f = name THEN doc ELSE files[f]]

\* writeSitemapFile / os.WriteFile: the directory, and the histories, after
\* the call. writeOk: os.WriteFile succeeds.
DoWrite(name, doc, writeOk) ==
    /\ disk' = IF writeOk THEN WriteFile(disk, name, doc) ELSE disk
    /\ written' = IF writeOk THEN Append(written, [file |-> name, doc |-> doc]) ELSE written
    /\ failed' = IF writeOk THEN failed ELSE name

\* lines 172-178: the first entry whose location does not resolve, or 0
FirstUnresolved(urls, base) ==
    IF \E k \in 1..Len(urls) : ~resolveURL(base, urls[k].Loc).ok
    THEN CHOOSE k \in 1..Len(urls) :
            /\ ~resolveURL(base, urls[k].Loc).ok
            /\ \A h \in 1..(k - 1) : resolveURL(base, urls[h].Loc).ok
    ELSE 0

\* lines 172-178: s.URLs after the loop (entries before the failing one are resolved)
ResolveAll(urls, base) ==
    LET bad == FirstUnresolved(urls, base)
    IN [k \in 1..Len(urls) |->
          IF bad = 0 \/ k < bad
          THEN [urls[k] EXCEPT !.Loc = resolveURL(base, urls[k].Loc).url]
          ELSE urls[k]]

\* the layout test with < for <=
SingleLayoutStrict(n, max) == n < max

\* line 181: the single-file layout
SingleLayout(n, max) == n <= max

\* lines 162-181: store the stylesheet, make the directory, resolve every
\* location, choose the layout. mkdirOk: os.MkdirAll succeeds.
WriteBegin ==
    \E bsu \in SitemapBaseInputs, style \in StylesheetInputs, mkdirOk \in BOOLEAN :
        /\ pc \in {"idle", "done"}
        /\ calls < MaxWrites
        /\ calls' = calls + 1
        /\ sinceWrite' = IF pc = "done" THEN Len(URLs) ELSE sinceWrite
        /\ Stylesheet' = style
        /\ baseSitemapURL' = bsu
        /\ written' = <<>>
        /\ checked' = <<>>
        /\ failed' = ""
        /\ fileCount' = 0 /\ i' = 0 /\ index' = <<>> /\ refs' = <<>> /\ j' = 0
        /\ IF ~dirExists /\ ~mkdirOk
           THEN /\ Return("StorageError")
                /\ UNCHANGED <<dirExists, URLs>>
           ELSE /\ dirExists' = TRUE
                /\ URLs' = ResolveAll(URLs, BaseURL)
                /\ IF FirstUnresolved(URLs, BaseURL) # 0
                   THEN Return("MalformedURL")
                   ELSE /\ result' = "none"
                        /\ pc' = IF SingleLayout(Len(URLs), MaxURLs) THEN "single" ELSE "index"
        /\ UNCHANGED <<config, disk, now, added, planVars>>

\* lines 183-186 with writeSitemapFile, lines 224-244
WriteSingle ==
    \E writeOk \in BOOLEAN :
        /\ pc = "single"
        /\ DoWrite("sitemap.xml", URLSetDoc(Stylesheet, URLs), writeOk)
        /\ IF WriteFailed(writeOk)
           THEN Return("StorageError")
           ELSE pc' = "validate" /\ UNCHANGED result
        /\ UNCHANGED <<config, locals, planVars, Stylesheet, dirExists, baseSitemapURL,
                       calls, URLs, now, added, checked, sinceWrite>>

\* line 188. readOk: os.ReadFile succeeds.
ValidateSingle ==
    \E readOk \in BOOLEAN :
        /\ pc = "validate"
        /\ LET err == validateXMLFile(disk, "sitemap.xml", FALSE, readOk)
           IN /\ checked' = Append(checked, [file |-> "sitemap.xml", err |-> err])
              /\ Return(err)
        /\ UNCHANGED <<config, locals, planVars, Stylesheet, dirExists, disk,
                       baseSitemapURL, calls, URLs, now, added, written, failed,
                       sinceWrite>>

\* writeSitemapIndex, lines 247-251. A division by zero is a run-time panic.
IndexBegin ==
    /\ pc = "index"
    /\ IF MaxURLs = 0
       THEN /\ Return("panic")
            /\ UNCHANGED <<fileCount, i, index>>
       ELSE /\ fileCount' = FileCount(Len(URLs), MaxURLs)
            /\ i' = 0
            /\ index' = <<>>
            /\ pc' = "shards"
            /\ UNCHANGED result
    /\ UNCHANGED <<config, planVars, Stylesheet, dirExists, disk, baseSitemapURL, refs, j,
                   calls, URLs, now, added, written, checked, failed, sinceWrite>>

\* One iteration of the loop of lines 252-272. A slice out of range is a
\* run-time panic.
WriteShard ==
    \E writeOk \in BOOLEAN :
        /\ pc = "shards"
        /\ i < fileCount
        /\ LET sitemapName == SitemapName(i + 1)
               start == ShardStart(i, MaxURLs)
               end == ShardEnd(i, MaxURLs, Len(URLs))
               sitemapURL == resolveSitemapURL(baseSitemapURL, sitemapName)
           IN IF ~SliceOk(start, end, Len(URLs))
              THEN /\ Return("panic")
                   /\ UNCHANGED <<disk, written, failed, i, index>>
              ELSE /\ DoWrite(sitemapName,
                              URLSetDoc(Stylesheet, SubSeq(URLs, start + 1, end)), writeOk)
                   /\ IF WriteFailed(writeOk)
                      THEN /\ Return("StorageError")
                           /\ UNCHANGED <<i, index>>
                      ELSE IF ~sitemapURL.ok
                      THEN /\ Return("MalformedURL")
                           /\ UNCHANGED <<i, index>>
                      ELSE /\ index' = Append(index, [Loc |-> sitemapURL.url,
                                                      LastMod |-> Today(now)])
                           /\ i' = i + 1
                           /\ UNCHANGED <<pc, result>>
        /\ UNCHANGED <<config, planVars, Stylesheet, dirExists, baseSitemapURL, fileCount,
                       refs, j, calls, URLs, now, added, checked, sinceWrite>>

\* lines 274-287 and 191-194
WriteIndex ==
    \E writeOk \in BOOLEAN :
        /\ pc = "shards"
        /\ i >= fileCount
        /\ DoWrite("sitemap_index.xml", SitemapIndexDoc(Stylesheet, index), writeOk)
        /\ IF WriteFailed(writeOk)
           THEN Return("StorageError")
           ELSE pc' = "validateIndex" /\ UNCHANGED result
        /\ UNCHANGED <<config, locals, planVars, Stylesheet, dirExists, baseSitemapURL,
                       calls, URLs, now, added, checked, sinceWrite>>

\* validateSitemapIndexAndFiles, lines 325-340. readOk, rereadOk: the two
\* os.ReadFile calls succeed.
ValidateIndex ==
    \E readOk \in BOOLEAN, rereadOk \in BOOLEAN :
        /\ pc = "validateIndex"
        /\ LET err == validateXMLFile(disk, "sitemap_index.xml", TRUE, readOk)
           IN /\ checked' = Append(checked, [file |-> "sitemap_index.xml", err |-> err])
              /\ IF err # "nil"
                 THEN Return(err) /\ UNCHANGED <<refs, j>>
                 ELSE IF ~rereadOk
                 THEN Return("ReadError") /\ UNCHANGED <<refs, j>>
                 ELSE /\ refs' = UnmarshalSitemaps(disk["sitemap_index.xml"])
                      /\ j' = 1
                      /\ pc' = "validateFiles"
                      /\ UNCHANGED result
        /\ UNCHANGED <<config, planVars, Stylesheet, dirExists, disk, baseSitemapURL,
                       fileCount, i, index, calls, URLs, now, added, written, failed,
                       sinceWrite>>

\* the file name a sitemap of the index refers to, lines 345-350
ReferencedFile(sitemap) == PathBase(sitemap.Loc)

\* the loop of lines 343-357 with the error of a shard dropped
AfterShardCheckIgnoringError(err, k, n) == IF k = n THEN "returnNil" ELSE "continue"

\* lines 353-357: what follows the check of the k-th of n referenced files
AfterShardCheck(err, k, n) ==
    IF err # "nil" THEN "returnErr" ELSE IF k = n THEN "returnNil" ELSE "continue"

\* One iteration of the loop of lines 343-356, and line 357 after the last.
ValidateFile ==
    \E readOk \in BOOLEAN :
        /\ pc = "validateFiles"
        /\ j <= Len(refs)
        /\ LET sitemapFile == ReferencedFile(refs[j])
               err == IF ~URLParses(refs[j].Loc) THEN "MalformedURL"
                      ELSE validateXMLFile(disk, sitemapFile, FALSE, readOk)
               then == AfterShardCheck(err, j, Len(refs))
           IN /\ checked' = Append(checked, [file |-> sitemapFile, err |-> err])
              /\ IF then = "returnErr" THEN Return(err) /\ UNCHANGED j
                 ELSE IF then = "returnNil" THEN Return("nil") /\ j' = j + 1
                 ELSE j' = j + 1 /\ UNCHANGED <<pc, result>>
        /\ UNCHANGED <<config, planVars, Stylesheet, dirExists, disk, baseSitemapURL,
                       fileCount, i, index, refs, calls, URLs, now, added, written, failed,
                       sinceWrite>>

Next ==
    \/ AddInput
    \/ WriteBegin
    \/ WriteSingle
    \/ ValidateSingle
    \/ IndexBegin
    \/ WriteShard
    \/ WriteIndex
    \/ ValidateIndex
    \/ ValidateFile

Spec == Init /\ [][Next]_vars

SpecAnyMax == InitAnyMax /\ [][Next]_vars

NextDate == AddDated \/ Tick

SpecDate == InitDate /\ [][NextDate]_vars

(***************************************************************************)
(* The batch plan of Write on entry counts too large to enumerate: the     *)
(* layout test of line 181 and the loop of lines 251-272 on len(s.URLs) =  *)
(* planN, recording each file's window [start, end) instead of its bytes,  *)
(* with every write succeeding.                                            *)
(***************************************************************************)
PlanLayout ==
    /\ pc = "idle"
    /\ baseSitemapURL' = AbsURL("www.example.com", <<"maps">>, TRUE)
    /\ IF SingleLayout(planN, MaxURLs)
       THEN /\ windows' = <<[file |-> "sitemap.xml", start |-> 0, end |-> planN]>>
            /\ Return("nil")
            /\ UNCHANGED <<fileCount, i, index>>
       ELSE /\ fileCount' = FileCount(planN, MaxURLs)
            /\ i' = 0
            /\ index' = <<>>
            /\ pc' = "shards"
            /\ UNCHANGED <<windows, result>>
    /\ UNCHANGED <<config, planN, Stylesheet, dirExists, disk, refs, j, calls, URLs, now,
                   added, written, checked, failed, sinceWrite>>

PlanShard ==
    /\ pc = "shards"
    /\ i < fileCount
    /\ LET sitemapName == SitemapName(i + 1)
           start == ShardStart(i, MaxURLs)
           end == ShardEnd(i, MaxURLs, planN)
       IN /\ SliceOk(start, end, planN)
          /\ windows' = Append(windows, [file |-> sitemapName, start |-> start, end |-> end])
          /\ index' = Append(index, [Loc |-> resolveSitemapURL(baseSitemapURL, sitemapName).url,
                                     LastMod |-> Today(now)])
          /\ i' = i + 1
    /\ UNCHANGED <<config, planN, Stylesheet, dirExists, disk, baseSitemapURL, fileCount,
                   refs, j, calls, URLs, now, added, written, checked, failed, sinceWrite,
                   pc, result>>

PlanIndex ==
    /\ pc = "shards"
    /\ i >= fileCount
    /\ windows' = Append(windows, [file |-> "sitemap_index.xml", start |-> 0,
                                   end |-> Len(index)])
    /\ Return("nil")
    /\ UNCHANGED <<config, planN, locals, Stylesheet, dirExists, disk, baseSitemapURL,
                   calls, URLs, now, added, written, checked, failed, sinceWrite>>

NextPlan == PlanLayout \/ PlanShard \/ PlanIndex

SpecPlan == InitPlan /\ [][NextPlan]_vars

(***************************************************************************)
(* Vocabulary of the properties.                                           *)
(***************************************************************************)
\* Every write of the call has been made: validation has begun.
WritePhaseDone ==
    \/ pc \in {"validate", "validateIndex", "validateFiles"}
    \/ pc = "done" /\ checked # <<>>

\* ceil(n / max) for max >= 1, as the least N with N * max >= n
Ceil(n, max) == CHOOSE N \in 0..n : N * max >= n /\ (N - 1) * max < n

ShardNames(N) == [k \in 1..N |-> SitemapName(k)]

WrittenNames == [k \in 1..Len(written) |-> written[k].file]

\* the <url> elements of the named files of s.Dir, concatenated in that order
RECURSIVE ConcatItems(_, _)
ConcatItems(files, names) ==
    IF names = <<>> THEN <<>>
    ELSE (IF Head(names) \in DOMAIN files THEN files[Head(names)].items ELSE <<>>)
         \o ConcatItems(files, Tail(names))

\* the <url> elements this Write wrote, in the order it wrote them
RECURSIVE EmittedItems(_)
EmittedItems(w) ==
    IF w = <<>> THEN <<>>
    ELSE (IF Head(w).doc.root = "urlset" THEN Head(w).doc.items ELSE <<>>)
         \o EmittedItems(Tail(w))

Marshalled(urls) == [k \in 1..Len(urls) |-> MarshalURL(urls[k])]

IsPrefix(a, b) == Len(a) <= Len(b) /\ \A k \in 1..Len(a) : a[k] = b[k]

(***************************************************************************)
(* C1: when there are more entries than the per-file limit, a Write that   *)
(* has made all its writes wrote exactly sitemap_1.xml .. sitemap_N.xml    *)
(* for N = ceil(n / maxPerFile), then sitemap_index.xml, and the shards'   *)
(* url elements, concatenated in shard order, are the accumulated entries  *)
(* in the same order, none duplicated, none lost.                          *)
(***************************************************************************)
ShardsPartitionEntries ==
    (WritePhaseDone /\ Len(URLs) > MaxURLs) =>
        LET N == Ceil(Len(URLs), MaxURLs)
        IN /\ WrittenNames = ShardNames(N) \o <<"sitemap_index.xml">>
           /\ \A k \in 1..N : SitemapName(k) \in DOMAIN disk
           /\ "sitemap_index.xml" \in DOMAIN disk
           /\ ConcatItems(disk, ShardNames(N)) = Marshalled(URLs)

\* three entries under a limit of two: the last shard holds the remainder
ShardsPartitionEntriesWitness ==
    /\ pc = "done" /\ result = "nil"
    /\ Len(URLs) = 3 /\ MaxURLs = 2
    /\ Len(disk["sitemap_2.xml"].items) = 1
    /\ URLs[1] # URLs[2]

(***************************************************************************)
(* C2: when the entries are no more than the per-file limit (none at all   *)
(* included), Write writes no file but sitemap.xml, and once it has made   *)
(* its write, sitemap.xml holds all the entries in input order.            *)
(***************************************************************************)
SingleFileHoldsAll ==
    Len(URLs) <= MaxURLs =>
        /\ IsPrefix(WrittenNames, <<"sitemap.xml">>)
        /\ WritePhaseDone =>
              /\ WrittenNames = <<"sitemap.xml">>
              /\ "sitemap.xml" \in DOMAIN disk
              /\ disk["sitemap.xml"].items = Marshalled(URLs)

\* as many entries as the limit allows, after an earlier Write left nothing
SingleFileHoldsAllWitness ==
    /\ pc = "done" /\ result = "nil"
    /\ Len(URLs) = MaxURLs /\ MaxURLs = 2
    /\ URLs[1] # URLs[2]
    /\ WrittenNames = <<"sitemap.xml">>

\* no entry at all: sitemap.xml is written with an empty urlset
EmptySetWritten ==
    /\ pc = "done" /\ Len(URLs) = 0 /\ MaxURLs = 0
    /\ WrittenNames = <<"sitemap.xml">>

(***************************************************************************)
(* C3: in the indexed layout the files are validated in the order          *)
(* sitemap_index.xml, then the shards as the index lists them; every file  *)
(* checked before the last checked one passed, a failed check is the last  *)
(* check, Write returns its error, and Write returns nil only after every  *)
(* file of that order passed.                                              *)
(***************************************************************************)
ValidationOrder ==
    <<"sitemap_index.xml">> \o [k \in 1..Len(index) |-> ReferencedFile(index[k])]

IndexThenShardsFirstFailure ==
    Len(URLs) > MaxURLs =>
        /\ IsPrefix([k \in 1..Len(checked) |-> checked[k].file], ValidationOrder)
        /\ \A k \in 1..Len(checked) :
              checked[k].err # "nil" =>
                  /\ k = Len(checked)
                  /\ pc = "done"
                  /\ result = checked[k].err
        /\ (pc = "done" /\ result = "nil") =>
              /\ Len(checked) = Len(ValidationOrder)
              /\ \A k \in 1..Len(checked) : checked[k].err = "nil"

\* the second of three shards fails the schema: the third is never checked
IndexThenShardsFirstFailureWitness ==
    /\ pc = "done" /\ result = "SchemaViolation"
    /\ Len(index) = 3
    /\ Len(checked) = 3
    /\ checked[3].file = "sitemap_2.xml"

(***************************************************************************)
(* C4: when a URL fails to parse during Write (an entry location, the      *)
(* content base URL or the sitemap base URL), Write returns an error and   *)
(* has written no file.                                                    *)
(***************************************************************************)
MalformedURLWritesNothing ==
    (pc = "done" /\ result = "MalformedURL") => written = <<>>

(***************************************************************************)
(* C5: when a write fails, Write returns that error at once: no later      *)
(* shard and no index is written, and nothing is validated.                *)
(***************************************************************************)
WriteFailureAborts ==
    failed # "" =>
        /\ pc = "done"
        /\ result = "StorageError"
        /\ checked = <<>>
        /\ \A k \in 1..Len(written) : written[k].file # "sitemap_index.xml"
        /\ \A k \in 1..MaxEntries :
              failed = SitemapName(k) => WrittenNames = ShardNames(k - 1)
        /\ failed = "sitemap.xml" => written = <<>>

\* the second of three shards cannot be written
WriteFailureAbortsWitness ==
    /\ failed = "sitemap_2.xml"
    /\ fileCount = 3
    /\ WrittenNames = <<"sitemap_1.xml">>

(***************************************************************************)
(* C6: every file a Write has written is in the directory with the content *)
(* written, whatever Write returns; and Write returns nil only when every  *)
(* file it wrote was validated and passed.                                 *)
(***************************************************************************)
NoRollback ==
    /\ \A k \in 1..Len(written) :
          /\ written[k].file \in DOMAIN disk
          /\ disk[written[k].file] = written[k].doc
    /\ (pc = "done" /\ result = "nil") =>
          \A k \in 1..Len(written) :
              \E c \in 1..Len(checked) :
                  checked[c].file = written[k].file /\ checked[c].err = "nil"

\* a shard fails the schema after three files were written: all three stay
NoRollbackWitness ==
    /\ pc = "done" /\ result = "SchemaViolation"
    /\ Len(written) = 3
    /\ \A k \in 1..3 : disk[written[k].file] = written[k].doc

\* a storage failure on the index after two shards were written: both stay
NoRollbackStorageWitness ==
    /\ pc = "done" /\ result = "StorageError"
    /\ failed = "sitemap_index.xml"
    /\ Len(written) = 2

(***************************************************************************)
(* C7: AddURL stores a lastmod that is a calendar date not after the UTC   *)
(* date of the call as given, and stores the UTC date of the call for a    *)
(* lastmod that is empty, not a calendar date, or a later date; the        *)
(* defaulting applied to a stored lastmod, then or later, changes nothing. *)
(***************************************************************************)
DateDefaulting ==
    /\ Len(URLs) = Len(added)
    /\ \A k \in 1..Len(URLs) :
          LET given == added[k].url.LastMod
              today == DateOfDay(added[k].day)
              stored == URLs[k].LastMod
          IN /\ IF ParseOk(given) /\ ~DateLess(today, ParseDate(given))
                THEN stored = given
                ELSE stored = FormatDate(today)
             /\ DefaultLastMod(stored, now) = stored
             /\ \A h \in (k + 1)..Len(URLs) :
                   added[h].url.LastMod = stored => URLs[h].LastMod = stored

\* an unparseable lastmod defaulted on day 1 and given to AddURL again on day 2
DateDefaultingWitness ==
    /\ Len(URLs) = 3
    /\ added[1].url.LastMod = Ymd(2023, 12, 31) /\ added[1].day = 1
    /\ URLs[1].LastMod = Ymd(2023, 12, 31)
    /\ added[2].url.LastMod = JunkDate /\ added[2].day = 1
    /\ added[3].url.LastMod = URLs[2].LastMod /\ added[3].day = 2
    /\ URLs[3].LastMod = Ymd(2023, 12, 31)

\* a lastmod later than the day of the call
FutureDateWitness ==
    /\ Len(URLs) = 1
    /\ added[1].url.LastMod = Ymd(2024, 1, 3) /\ added[1].day = 2
    /\ URLs[1].LastMod = Ymd(2024, 1, 1)

Stored(a) ==
    [a.url EXCEPT !.LastMod = DefaultLastMod(a.url.LastMod, a.day),
                  !.Loc = resolveURL(BaseURL, a.url.Loc).url]

ScenarioB == pc = "done" /\ planN = ScenarioEntries /\ MaxURLs = maxURLsPerSitemap

ScenarioBThreeShards ==
    ScenarioB =>
        /\ Len(index) = 3
        /\ Len(windows) = 4

(***************************************************************************)
(* C9 as amended: 60,002 entries under a limit of 33333 give 2 shard       *)
(* files, of 33333 and 26669 entries, and sitemap_index.xml with 2 sitemap *)
(* entries referring to them in order.                                     *)
(***************************************************************************)
ScenarioBTwoShards ==
    ScenarioB =>
        /\ windows = << [file |-> "sitemap_1.xml", start |-> 0, end |-> 33333],
                        [file |-> "sitemap_2.xml", start |-> 33333, end |-> 60002],
                        [file |-> "sitemap_index.xml", start |-> 0, end |-> 2] >>
        /\ Len(index) = 2
        /\ \A k \in 1..2 : ReferencedFile(index[k]) = SitemapName(k)

ScenarioBWitness == ScenarioB /\ Len(windows) = 3

(***************************************************************************)
(* C10: whatever the value of MaxURLs, Write returns nil or an error: the  *)
(* layout test, the division and the slice bounds never fault.             *)
(***************************************************************************)
WriteNeverFaults == result # "panic"

====
